---- MODULE Spec2Model ----
(***************************************************************************)
(* The service worker of the Simple PWA (src/README.md, lines 98-293): its *)
(* install / activate / fetch handlers, run against the Cache Storage and  *)
(* the service-worker lifecycle of the hosting browser.                    *)
(*                                                                         *)
(* Every asynchronous completion (caches.open, cache.addAll, caches.keys,  *)
(* caches.delete, caches.match, fetch, cache.put, clients.claim) is one    *)
(* step of the model, so handlers of different workers and different       *)
(* requests interleave at exactly the points where the code awaits.        *)
(***************************************************************************)
EXTENDS Integers, Sequences, FiniteSets, TLC

\* ---------------------------------------------------------------- bounds
MaxVersion  == 2    \* deployed versions of the worker script: 1..MaxVersion
MaxContent  == 2    \* distinct bodies the network may serve for one url
ManifestLen == 2    \* how many leading entries of ASSETS_TO_CACHE are modelled
MaxClients  == 2    \* window clients open at a time
MaxPolls    == 2    \* update checks of the interval timer that are followed
MaxEvents   == 2    \* online / offline events due at a time
MaxPhotos   == 2    \* photos captured in one run of the page

\* ------------------------------------------------------ program constants
STATUS_OK          == 200     \* networkResponse.status === 200
STATUS_UNAVAILABLE == 503     \* status of the synthetic offline response
POLL_INTERVAL      == 60000   \* setInterval(.., 60000): check every 60 seconds

Versions == 1..MaxVersion
Contents == 1..MaxContent
\* The fetch events of the controlled page are followed one at a time: one
\* slot, taken by a fetch event until the page has its answer and the
\* write-through the handler started has settled.
Reqs     == {1}
None     == 0                 \* "undefined": no record / no body

\* const CACHE_VERSION = 'v1' : the version tag of the worker script number v
CACHE_VERSION(v) == v

\* A buggy naming that forgets the version tag (every version shares a name).
CACHE_NAME_Unversioned(v) == <<"simple-pwa-", 1>>

\* const CACHE_NAME = `simple-pwa-${CACHE_VERSION}`
CACHE_NAME(v) == <<"simple-pwa-", CACHE_VERSION(v)>>

CacheNames == {CACHE_NAME(v) : v \in Versions}

\* const ASSETS_TO_CACHE = [...]  (the list as written in the source)
AllAssets ==
    << "./", "./index.html", "./style.css", "./app.js", "./manifest.json",
       "./assets/icon-192.png", "./assets/icon-512.png",
       "./assets/icon-maskable-192.png", "./assets/icon-maskable-512.png" >>

ASSETS_TO_CACHE == {AllAssets[i] : i \in 1..ManifestLen}

\* The url the offline fallback looks up: caches.match('./index.html')
FALLBACK_URL == "./index.html"

\* The urls the page requests: the application's own files.
URLs == ASSETS_TO_CACHE

Methods      == {"GET", "POST"}
Destinations == {"document", "script"}
\* Statuses of a network response that is not a network error.
Statuses     == {STATUS_OK, 203, 404}

VARIABLES
    state,        \* state[v]: lifecycle state of worker version v
    ipc,          \* ipc[v]: where the promise given to install's waitUntil stands
    addAllFailed, \* addAllFailed[v]: manifest entries whose fetch failed in the
                  \* addAll of the install phase that v is in
    apc,          \* apc[v]: where the promise given to activate's waitUntil stands
    toDelete,     \* toDelete[v]: caches.delete calls of activate not yet settled
    skipWaiting,  \* skipWaiting[v]: the worker's skip-waiting flag
    claim,        \* claim[v]: the clients.claim() call of the activate handler
    controller,   \* the worker version controlling the open page, 0 if none
    caches,       \* Cache Storage: the caches in creation order
    req,          \* req[r]: the fetch event held in slot r
    received,     \* the message event handled last, and the worker that got it
    windows,      \* the open window clients, in the order matchAll lists them
    click,        \* the notification shown and the handling of its click
    outbox,       \* the messages posted to clients for the click
    focused,      \* the clients focus() was called on for the click
    opened,       \* the urls openWindow() was called with for the click
    page,         \* the foreground page: its script, its start-up, its listeners
    reg,          \* the registration of the worker as the page sees it
    net,          \* connectivity: navigator.onLine, events due, the indicator
    gallery,      \* the photo database: the open request, db, the store, the grid
    view          \* the elements carrying the class 'active', the last showView

vars == <<state, ipc, addAllFailed, apc, toDelete, skipWaiting, claim,
          controller, caches, req,
          received, windows, click, outbox, focused, opened,
          page, reg, net, gallery, view>>

\* What the foreground script (app.js) reads and writes.
foreground == <<page, reg, net, gallery, view>>

\* What the gallery and the view navigation of app.js add to the state.
ui == <<gallery, view>>

\* What the worker script reads and writes.
background == <<state, ipc, addAllFailed, apc, toDelete, skipWaiting, claim,
                controller, caches, req,
                received, windows, click, outbox, focused, opened>>

\* What the notificationclick handler reads and writes.
notify == <<windows, click, outbox, focused, opened>>

\* What the message and notificationclick handlers add to the state.
channel == <<received, windows, click, outbox, focused, opened>>

lifecycle == <<state, ipc, addAllFailed, apc, toDelete, skipWaiting, claim,
               controller>>

\* ----------------------------------------------------- Cache Storage API
EmptyRecs == [u \in URLs |-> None]

Names(cs) == {cs[i].name : i \in 1..Len(cs)}

IndexOf(cs, n) == CHOOSE i \in 1..Len(cs) : cs[i].name = n

\* The records of the cache named n; no records when there is no such cache.
RecsOf(cs, n) == IF n \in Names(cs) THEN cs[IndexOf(cs, n)].recs ELSE EmptyRecs

\* The statuses of the records of the cache named n.
StatsOf(cs, n) == IF n \in Names(cs) THEN cs[IndexOf(cs, n)].stat ELSE EmptyRecs

\* caches.open(name): creates the cache when it does not exist.  A cache
\* keeps, per url, the body (recs) and the status (stat) of the snapshot.
CachesOpen(cs, n) ==
    IF n \in Names(cs) THEN cs
    ELSE Append(cs, [name |-> n, recs |-> EmptyRecs, stat |-> EmptyRecs])

\* caches.delete(name)
CachesDelete(cs, n) == SelectSeq(cs, LAMBDA c : c.name # n)

\* A put that keeps the record a url already has: the first write wins.
CachePut_KeepFirst(cs, n, u, resp) ==
    [i \in 1..Len(cs) |->
        IF cs[i].name = n /\ cs[i].recs[u] = None
        THEN [cs[i] EXCEPT !.recs[u] = resp.body, !.stat[u] = resp.status]
        ELSE cs[i]]

\* cache.put(request, response) on the cache named n (a cache that exists):
\* the record of the url is replaced by the snapshot of the response.
CachePut(cs, n, u, resp) ==
    [i \in 1..Len(cs) |->
        IF cs[i].name = n
        THEN [cs[i] EXCEPT !.recs[u] = resp.body, !.stat[u] = resp.status]
        ELSE cs[i]]

\* cache.addAll(urls) once every response has arrived: one batch of puts.
CachePutAll(cs, n, us, status, body) ==
    [i \in 1..Len(cs) |->
        IF cs[i].name = n
        THEN [cs[i] EXCEPT !.recs = [u \in URLs |-> IF u \in us THEN body ELSE @[u]],
                           !.stat = [u \in URLs |-> IF u \in us THEN status ELSE @[u]]]
        ELSE cs[i]]

\* caches.match(request): the first cache, in creation order, that holds a
\* record for the url answers; None when no cache holds one.
CachesMatch(cs, u) ==
    LET hits == {i \in 1..Len(cs) : cs[i].recs[u] # None}
    IN  IF hits = {} THEN None
        ELSE cs[CHOOSE i \in hits : \A j \in hits : i <= j].recs[u]

\* The status of the record caches.match(request) answers with.
CachesMatchStatus(cs, u) ==
    LET hits == {i \in 1..Len(cs) : cs[i].recs[u] # None}
    IN  IF hits = {} THEN None
        ELSE cs[CHOOSE i \in hits : \A j \in hits : i <= j].stat[u]

\* ------------------------------------------------------------- requests
\* A response: where it came from (kind), its status, its Content-Type as far
\* as the worker sets it ("served": whatever the server or the cache gave)
\* and its body.
NoResp == [kind |-> "none", status |-> 0, ctype |-> "none", body |-> None]

IdleReq == [pc |-> "idle", wpc |-> "none", sw |-> 0, method |-> "GET",
            sameOrigin |-> TRUE, url |-> "./", dest |-> "document",
            resp |-> NoResp]

\* ------------------------------------------------------------- messages
\* event.data of a message event, as far as the handler looks at it: whether
\* it is truthy, and its type property ("undefined" when it has none).
NullMessage == [truthy |-> FALSE, type |-> "undefined"]

SkipWaitingMessage == [truthy |-> TRUE, type |-> "SKIP_WAITING"]

MessageDatas ==
    {NullMessage, SkipWaitingMessage,
     [truthy |-> TRUE, type |-> "undefined"],          \* a string, an object without type
     [truthy |-> TRUE, type |-> "skip_waiting"],
     [truthy |-> TRUE, type |-> "CLEAR_CACHE"]}

\* No message event handled yet.
NoMessage == [to |-> 0, at |-> "parsed", data |-> NullMessage, skipWaitingCalled |-> FALSE]

\* -------------------------------------------------------- notifications
\* event.notification.data, as far as the handler looks at it: whether it is
\* there, whether it has a url, and the url.
NoData == [present |-> FALSE, hasUrl |-> FALSE, url |-> ""]

DataUrls == {"", "/gallery", "./?notification=test"}

NotificationDatas ==
    {NoData, [present |-> TRUE, hasUrl |-> FALSE, url |-> ""]}
        \cup {[present |-> TRUE, hasUrl |-> TRUE, url |-> u] : u \in DataUrls}

DEFAULT_URL == "./?notification=test"

ClientIds == 1..MaxClients

NoClick == [pc |-> "idle", data |-> NoData, closed |-> FALSE,
            targetUrl |-> "", clientList |-> << >>]

InitChannel ==
    /\ received = NoMessage
    /\ windows  = << >>
    /\ click    = NoClick
    /\ outbox   = << >>
    /\ focused  = << >>
    /\ opened   = << >>

\* ------------------------------------------------------------ foreground
\* The repository holds two definitions of registerServiceWorker and of
\* setupOfflineDetection: the one of app.js and the one of the earlier script
\* kept as unnamed/part_001.
Variants == {"app.js", "part_001"}

\* The page before its script has run: document still loading, nothing
\* registered, no listener, no timer.
NewPage(variant, supported) ==
    [variant |-> variant, supported |-> supported, pc |-> "loading",
     messageListener |-> FALSE, offlineListeners |-> FALSE]

NoRegistration == [state |-> "none", pollInterval |-> 0, updates |-> 0, errorLogged |-> FALSE]

\* The photos of one run are numbered in the order of capture; photo 0 is
\* one a previous run has left in the store.
Photos == 0..MaxPhotos

\* The gallery before initDatabase(): no open request, db undefined, and on
\* the disk either no database yet or the one a previous run has made.
NewGallery(exists, photos) ==
    [request |-> "none", db |-> FALSE, exists |-> exists, photos |-> photos,
     adds |-> << >>, grid |-> << >>, saves |-> << >>]

\* The elements of the document showView can meet: the views (class 'view'),
\* an element that has an id and is not a view, and an id no element has.
ViewIds    == {"homeView", "galleryView"}
WidgetIds  == {"galleryGrid"}
ElementIds == ViewIds \cup WidgetIds
ViewArgs   == ElementIds \cup {"settingsView"}

\* The document before any showView call, with the views in active marked.
NewView(active) == [active |-> active, last |-> "", notFound |-> FALSE]

\* The foreground left out: a page of app.js that has not started.
IdleForeground ==
    /\ page = NewPage("app.js", TRUE)
    /\ reg  = NoRegistration
    /\ net  = [onLine |-> TRUE, events |-> << >>, indicatorHidden |-> TRUE]
    /\ gallery = NewGallery(FALSE, << >>)
    /\ view = NewView({"homeView"})

Init ==
    /\ state        = [v \in Versions |-> "parsed"]
    /\ ipc          = [v \in Versions |-> "idle"]
    /\ addAllFailed = [v \in Versions |-> {}]
    /\ apc          = [v \in Versions |-> "idle"]
    /\ toDelete     = [v \in Versions |-> {}]
    /\ skipWaiting  = [v \in Versions |-> FALSE]
    /\ claim        = [v \in Versions |-> "none"]
    /\ controller   = 0
    /\ caches       = << >>
    /\ req          = [r \in Reqs |-> IdleReq]
    /\ InitChannel
    /\ IdleForeground

\* ---------------------------------------------------------------- install
\* An install handler without self.skipWaiting().
InstallEvent_NoSkipWaiting(v) ==
    /\ state[v] = "parsed"
    /\ IF v = 1 THEN TRUE ELSE state[v - 1] = "activated"
    /\ state'       = [state EXCEPT ![v] = "installing"]
    /\ ipc'         = [ipc EXCEPT ![v] = "open"]
    /\ UNCHANGED <<addAllFailed, apc, toDelete, skipWaiting, claim, controller, caches, req>>
    /\ UNCHANGED channel
    /\ UNCHANGED foreground

\* self.addEventListener('install', ...): the synchronous part of the
\* handler.  The browser fires it for version 1 on registration and for a
\* later version when an update check finds it.
InstallEvent(v) ==
    /\ state[v] = "parsed"
    /\ IF v = 1 THEN TRUE ELSE state[v - 1] = "activated"
    /\ state'       = [state EXCEPT ![v] = "installing"]
    /\ ipc'         = [ipc EXCEPT ![v] = "open"]          \* event.waitUntil(caches.open(..))
    /\ skipWaiting' = [skipWaiting EXCEPT ![v] = TRUE]    \* self.skipWaiting()
    /\ UNCHANGED <<addAllFailed, apc, toDelete, claim, controller, caches, req>>
    /\ UNCHANGED channel
    /\ UNCHANGED foreground

\* caches.open(CACHE_NAME) resolves.
InstallOpen(v) ==
    /\ ipc[v] = "open"
    /\ caches' = CachesOpen(caches, CACHE_NAME(v))
    /\ ipc'    = [ipc EXCEPT ![v] = "addAll"]
    /\ UNCHANGED <<state, addAllFailed, apc, toDelete, skipWaiting, claim, controller, req>>
    /\ UNCHANGED channel
    /\ UNCHANGED foreground

\* An addAll that stores whatever the server answers, error pages included.
OkStatuses_Any == Statuses

\* The statuses cache.addAll accepts: it treats a response whose status is
\* not in the range 200 to 299 like a failed fetch.
OkStatuses == {s \in Statuses : s \in 200..299}

\* What cache.addAll leaves in the store when the fetches of `failed` failed
\* (a network error or a status it does not accept): addAll rejects as a
\* whole and stores nothing unless every fetch succeeded.
AddAllResult(cs, n, failed, status, body) ==
    IF failed = {} THEN CachePutAll(cs, n, ASSETS_TO_CACHE, status, body) ELSE cs

\* cache.addAll(ASSETS_TO_CACHE) settles; a rejection is caught and turned
\* into a resolved promise.
InstallAddAll(v) ==
    /\ ipc[v] = "addAll"
    /\ \E failed \in SUBSET ASSETS_TO_CACHE, status \in OkStatuses, body \in Contents :
          /\ caches'       = AddAllResult(caches, CACHE_NAME(v), failed, status, body)
          /\ addAllFailed' = [addAllFailed EXCEPT ![v] = failed]
    /\ ipc' = [ipc EXCEPT ![v] = "settled"]
    /\ UNCHANGED <<state, apc, toDelete, skipWaiting, claim, controller, req>>
    /\ UNCHANGED channel
    /\ UNCHANGED foreground

\* An install handler that does not pass its promise to event.waitUntil: the
\* browser ends the install phase without waiting.
InstallDone_NoWait(v) ==
    /\ state[v] = "installing"
    /\ state' = [state EXCEPT ![v] = "installed"]
    /\ addAllFailed' = [addAllFailed EXCEPT ![v] = {}]
    /\ UNCHANGED <<ipc, apc, toDelete, skipWaiting, claim, controller, caches, req>>
    /\ UNCHANGED channel
    /\ UNCHANGED foreground

\* The promise given to waitUntil has settled: the browser ends the install
\* phase.
InstallDone(v) ==
    /\ state[v] = "installing"
    /\ ipc[v] = "settled"
    /\ state' = [state EXCEPT ![v] = "installed"]
    /\ addAllFailed' = [addAllFailed EXCEPT ![v] = {}]
    /\ UNCHANGED <<ipc, apc, toDelete, skipWaiting, claim, controller, caches, req>>
    /\ UNCHANGED channel
    /\ UNCHANGED foreground

\* --------------------------------------------------------------- activate
\* Another worker is the active worker of the registration.
OtherActive(v) == \E w \in Versions \ {v} : state[w] \in {"activating", "activated"}

\* A browser that keeps the previous worker active until the activate phase
\* of v has ended.
ActivateEvent_LateHandOver(v) ==
    /\ state[v] = "installed"
    /\ skipWaiting[v] \/ ~OtherActive(v)
    /\ state' = [state EXCEPT ![v] = "activating"]
    /\ controller' = controller
    /\ apc'   = [apc EXCEPT ![v] = "keys"]
    /\ claim' = [claim EXCEPT ![v] = "pending"]
    /\ UNCHANGED <<ipc, addAllFailed, toDelete, skipWaiting, caches, req>>
    /\ UNCHANGED channel
    /\ UNCHANGED foreground

\* self.addEventListener('activate', ...): the browser makes v the active
\* worker (an installed worker waits unless its skip-waiting flag is set or
\* no other worker is active), the previous active worker becomes redundant,
\* a page it controlled is handed to v, and the synchronous part of the
\* handler runs: waitUntil(caches.keys()...) and self.clients.claim().
ActivateEvent(v) ==
    /\ state[v] = "installed"
    /\ skipWaiting[v] \/ ~OtherActive(v)
    /\ state' = [w \in Versions |->
                    IF w = v THEN "activating"
                    ELSE IF state[w] \in {"activating", "activated"} THEN "redundant"
                    ELSE state[w]]
    /\ controller' = IF controller # 0 THEN v ELSE 0
    /\ apc'   = [apc EXCEPT ![v] = "keys"]
    /\ claim' = [claim EXCEPT ![v] = "pending"]
    /\ UNCHANGED <<ipc, addAllFailed, toDelete, skipWaiting, caches, req>>
    /\ UNCHANGED channel
    /\ UNCHANGED foreground

\* An activate handler that deletes every cache, its own generation included.
StaleNames_All(cs, v) == Names(cs)

\* The names the activate handler deletes: cacheName !== CACHE_NAME
StaleNames(cs, v) == {n \in Names(cs) : n # CACHE_NAME(v)}

\* caches.keys() resolves: one caches.delete is started per stale name.
ActivateKeys(v) ==
    /\ apc[v] = "keys"
    /\ toDelete' = [toDelete EXCEPT ![v] = StaleNames(caches, v)]
    /\ apc'      = [apc EXCEPT ![v] = "delete"]
    /\ UNCHANGED <<state, ipc, addAllFailed, skipWaiting, claim, controller, caches, req>>
    /\ UNCHANGED channel
    /\ UNCHANGED foreground

\* A Cache object obtained from caches.open stays usable after its cache is
\* deleted, but is no longer part of the Cache Storage: a write-through that
\* holds one writes into a detached cache.
Detach(rq, n) ==
    [r \in DOMAIN rq |->
        IF rq[r].wpc = "put" /\ CACHE_NAME(rq[r].sw) = n
        THEN [rq[r] EXCEPT !.wpc = "detached"] ELSE rq[r]]

\* One caches.delete(cacheName) settles.
ActivateDelete(v) ==
    /\ apc[v] = "delete"
    /\ \E n \in toDelete[v] :
          /\ caches'   = CachesDelete(caches, n)
          /\ toDelete' = [toDelete EXCEPT ![v] = @ \ {n}]
          /\ req'      = Detach(req, n)
    /\ UNCHANGED <<state, ipc, addAllFailed, apc, skipWaiting, claim, controller>>
    /\ UNCHANGED channel
    /\ UNCHANGED foreground

\* Promise.all(...) has settled, and with it the promise given to waitUntil:
\* the browser ends the activate phase.
ActivateDone(v) ==
    /\ state[v] = "activating"
    /\ apc[v] = "delete"
    /\ toDelete[v] = {}
    /\ apc'   = [apc EXCEPT ![v] = "settled"]
    /\ state' = [state EXCEPT ![v] = "activated"]
    /\ UNCHANGED <<ipc, addAllFailed, toDelete, skipWaiting, claim, controller, caches, req>>
    /\ UNCHANGED channel
    /\ UNCHANGED foreground

\* self.clients.claim() takes effect: it was called in the synchronous part
\* of the activate handler and is chained to nothing.  It rejects when the
\* worker is no longer the active worker.
ClientsClaim(v) ==
    /\ claim[v] = "pending"
    /\ IF state[v] \in {"activating", "activated"}
       THEN /\ controller' = v
            /\ claim' = [claim EXCEPT ![v] = "done"]
       ELSE /\ controller' = controller
            /\ claim' = [claim EXCEPT ![v] = "rejected"]
    /\ UNCHANGED <<state, ipc, addAllFailed, apc, toDelete, skipWaiting, caches, req>>
    /\ UNCHANGED channel
    /\ UNCHANGED foreground

\* ------------------------------------------------------------------ fetch
\* A fetch handler without the method test: any same-origin request is
\* answered from the cache or the network by the worker.
FetchEvent_NoMethodCheck(r) ==
    /\ req[r].pc = "idle"
    /\ controller # 0
    /\ state[controller] = "activated"
    /\ \E m \in Methods, so \in BOOLEAN, u \in URLs, d \in Destinations :
          req' = [req EXCEPT ![r] =
                    [IdleReq EXCEPT
                        !.sw = controller, !.method = m, !.sameOrigin = so,
                        !.url = u, !.dest = d,
                        !.pc = IF ~so THEN "passthrough" ELSE "match"]]
    /\ UNCHANGED <<lifecycle, caches>>
    /\ UNCHANGED channel
    /\ UNCHANGED foreground

\* A fetch handler without the origin test: any GET request is answered from
\* the cache or the network by the worker.
FetchEvent_NoOriginCheck(r) ==
    /\ req[r].pc = "idle"
    /\ controller # 0
    /\ state[controller] = "activated"
    /\ \E m \in Methods, so \in BOOLEAN, u \in URLs, d \in Destinations :
          req' = [req EXCEPT ![r] =
                    [IdleReq EXCEPT
                        !.sw = controller, !.method = m, !.sameOrigin = so,
                        !.url = u, !.dest = d,
                        !.pc = IF m # "GET" THEN "passthrough" ELSE "match"]]
    /\ UNCHANGED <<lifecycle, caches>>
    /\ UNCHANGED channel
    /\ UNCHANGED foreground

\* self.addEventListener('fetch', ...): the synchronous part of the handler.
\* The browser dispatches the event to the worker controlling the page, once
\* that worker is activated.
FetchEvent(r) ==
    /\ req[r].pc = "idle"
    /\ controller # 0
    /\ state[controller] = "activated"
    /\ \E m \in Methods, so \in BOOLEAN, u \in URLs, d \in Destinations :
          req' = [req EXCEPT ![r] =
                    [IdleReq EXCEPT
                        !.sw = controller, !.method = m, !.sameOrigin = so,
                        !.url = u, !.dest = d,
                        !.pc = IF m # "GET" THEN "passthrough"          \* return;
                               ELSE IF ~so THEN "passthrough"           \* return;
                               ELSE "match"]]                           \* respondWith(caches.match(..))
    /\ UNCHANGED <<lifecycle, caches>>
    /\ UNCHANGED channel
    /\ UNCHANGED foreground

\* A network-first handler: the lookup is skipped and every request goes to
\* the network.
Lookup_NetworkFirst(cs, v, u) == None

\* What the handler looks up for a request: caches.match(request).
Lookup(cs, v, u) == CachesMatch(cs, u)

\* caches.match(request) resolves.
MatchSettle(r) ==
    /\ req[r].pc = "match"
    /\ LET c == Lookup(caches, req[r].sw, req[r].url)
       IN  req' = [req EXCEPT ![r] =
                     IF c # None
                     THEN [@ EXCEPT !.pc = "done",
                                    !.resp = [kind |-> "hit",
                                              status |-> CachesMatchStatus(caches, req[r].url),
                                              ctype |-> "served", body |-> c]]
                     ELSE [@ EXCEPT !.pc = "fetch"]]                    \* fetch(request)
    /\ UNCHANGED <<lifecycle, caches>>
    /\ UNCHANGED channel
    /\ UNCHANGED foreground

\* A status test that never succeeds (status compared with the string '200').
Cacheable_Never(status) == FALSE

\* A handler that writes every network response through, whatever its status.
Cacheable_Any(status) == TRUE

\* networkResponse && networkResponse.status === 200
Cacheable(status) == status = STATUS_OK

\* new Response('Offline - Resource not available', {status: 503, ...})
OfflineResponse ==
    [kind |-> "synthetic", status |-> STATUS_UNAVAILABLE, ctype |-> "text/plain", body |-> None]

\* A handler that returns the response only when its write-through has
\* settled (return caches.open(..).then(c => c.put(..)).then(() => response)).
FetchResolve_AwaitWrite(r) ==
    /\ req[r].pc = "fetch"
    /\ req[r].wpc = "none"
    /\ \E s \in Statuses, c \in Contents :
          req' = [req EXCEPT ![r] =
                    [@ EXCEPT !.pc = IF Cacheable(s) THEN "fetch" ELSE "done",
                              !.resp = [kind |-> "live", status |-> s, ctype |-> "served", body |-> c],
                              !.wpc = IF Cacheable(s) THEN "open" ELSE "none"]]
    /\ UNCHANGED <<lifecycle, caches>>
    /\ UNCHANGED channel
    /\ UNCHANGED foreground

\* fetch(request) resolves with a response (any status): the response is
\* returned, and a cacheable one is cloned and its write-through started.
FetchResolve(r) ==
    /\ req[r].pc = "fetch"
    /\ \E s \in Statuses, c \in Contents :
          req' = [req EXCEPT ![r] =
                    [@ EXCEPT !.pc = "done",
                              !.resp = [kind |-> "live", status |-> s, ctype |-> "served", body |-> c],
                              !.wpc = IF Cacheable(s) THEN "open" ELSE "none"]]
    /\ UNCHANGED <<lifecycle, caches>>
    /\ UNCHANGED channel
    /\ UNCHANGED foreground

\* A catch branch without the destination test: every failed request is
\* answered with the cached shell.
FetchReject_AlwaysShell(r) ==
    /\ req[r].pc = "fetch"
    /\ req' = [req EXCEPT ![r].pc = "fallback"]
    /\ UNCHANGED <<lifecycle, caches>>
    /\ UNCHANGED channel
    /\ UNCHANGED foreground

\* A catch branch that also stores the synthetic response for the url.
FetchReject_CacheOffline(r) ==
    /\ req[r].pc = "fetch"
    /\ req' = [req EXCEPT ![r] =
                 IF @.dest = "document"
                 THEN [@ EXCEPT !.pc = "fallback"]
                 ELSE [@ EXCEPT !.pc = "done", !.resp = OfflineResponse, !.wpc = "open"]]
    /\ UNCHANGED <<lifecycle, caches>>
    /\ UNCHANGED channel
    /\ UNCHANGED foreground

\* fetch(request) rejects (network error): the catch branch.
FetchReject(r) ==
    /\ req[r].pc = "fetch"
    /\ req' = [req EXCEPT ![r] =
                 IF @.dest = "document"
                 THEN [@ EXCEPT !.pc = "fallback"]                      \* caches.match('./index.html')
                 ELSE [@ EXCEPT !.pc = "done", !.resp = OfflineResponse]]
    /\ UNCHANGED <<lifecycle, caches>>
    /\ UNCHANGED channel
    /\ UNCHANGED foreground

\* A fallback that ignores the cached shell and answers "unavailable".
ShellResponse_Unavailable(c, s) == OfflineResponse

\* What respondWith hands to the page when the fallback lookup gave c:
\* the cached shell, or a network error when the lookup gave undefined.
ShellResponse(c, s) ==
    IF c # None THEN [kind |-> "shell", status |-> s, ctype |-> "served", body |-> c]
    ELSE [kind |-> "error", status |-> 0, ctype |-> "none", body |-> None]

\* caches.match('./index.html') resolves.
FallbackSettle(r) ==
    /\ req[r].pc = "fallback"
    /\ req' = [req EXCEPT ![r] =
                 [@ EXCEPT !.pc = "done",
                           !.resp = ShellResponse(CachesMatch(caches, FALLBACK_URL),
                                                  CachesMatchStatus(caches, FALLBACK_URL))]]
    /\ UNCHANGED <<lifecycle, caches>>
    /\ UNCHANGED channel
    /\ UNCHANGED foreground

\* caches.open(CACHE_NAME) of the write-through resolves.
WriteOpen(r) ==
    /\ req[r].wpc = "open"
    /\ caches' = CachesOpen(caches, CACHE_NAME(req[r].sw))
    /\ req'    = [req EXCEPT ![r].wpc = "put"]
    /\ UNCHANGED lifecycle
    /\ UNCHANGED channel
    /\ UNCHANGED foreground

\* A put that is not atomic: a failing put leaves what it had written so far
\* in the cache.
WritePut_PartialOnFailure(r) ==
    /\ req[r].wpc = "put"
    /\ \E ok \in BOOLEAN :
          /\ caches' = CachePut(caches, CACHE_NAME(req[r].sw), req[r].url, req[r].resp)
          /\ req'    = [req EXCEPT ![r].wpc = IF ok THEN "stored" ELSE "failed"]
    /\ UNCHANGED lifecycle
    /\ UNCHANGED channel
    /\ UNCHANGED foreground

\* A put that goes to every existing cache instead of the one that was opened.
WritePut_AllGenerations(r) ==
    /\ req[r].wpc = "put"
    /\ \E ok \in BOOLEAN :
          IF ok
          THEN /\ caches' = [i \in 1..Len(caches) |->
                                [caches[i] EXCEPT !.recs[req[r].url] = req[r].resp.body,
                                                  !.stat[req[r].url] = req[r].resp.status]]
               /\ req'    = [req EXCEPT ![r].wpc = "stored"]
          ELSE /\ caches' = caches
               /\ req'    = [req EXCEPT ![r].wpc = "failed"]
    /\ UNCHANGED lifecycle
    /\ UNCHANGED channel
    /\ UNCHANGED foreground

\* cache.put(request, responseToCache) settles: the record is replaced as a
\* whole, or the put fails and nothing is written.  The promise is neither
\* returned nor caught.
WritePut(r) ==
    /\ req[r].wpc = "put"
    /\ \E ok \in BOOLEAN :
          IF ok
          THEN /\ caches' = CachePut(caches, CACHE_NAME(req[r].sw), req[r].url, req[r].resp)
               /\ req'    = [req EXCEPT ![r].wpc = "stored"]
          ELSE /\ caches' = caches
               /\ req'    = [req EXCEPT ![r].wpc = "failed"]
    /\ UNCHANGED lifecycle
    /\ UNCHANGED channel
    /\ UNCHANGED foreground

\* cache.put on a cache that was deleted after it was opened.
WriteDetached(r) ==
    /\ req[r].wpc = "detached"
    /\ req' = [req EXCEPT ![r].wpc = "lost"]
    /\ UNCHANGED <<lifecycle, caches>>
    /\ UNCHANGED channel
    /\ UNCHANGED foreground

\* The page has its answer and the handler has nothing pending: the slot is
\* free for the next fetch event.
Release(r) ==
    /\ req[r].pc \in {"done", "passthrough"}
    /\ req[r].wpc \in {"none", "stored", "failed", "lost"}
    /\ req' = [req EXCEPT ![r] = IdleReq]
    /\ UNCHANGED <<lifecycle, caches>>
    /\ UNCHANGED channel
    /\ UNCHANGED foreground

\* ---------------------------------------------------------------- message
\* A handler that calls skipWaiting() for every message that carries data.
IsSkipWaiting_AnyMessage(data) == data.truthy

\* event.data && event.data.type === 'SKIP_WAITING'
IsSkipWaiting(data) == data.truthy /\ data.type = "SKIP_WAITING"

\* self.addEventListener('message', ...): the whole handler.  A page posts
\* to a worker it reaches through its registration (installing, waiting or
\* active) or as its controller.  The handler logs event.data and calls
\* self.skipWaiting() for a SKIP_WAITING message.
Message(v, data) ==
    /\ state[v] \in {"installing", "installed", "activating", "activated"}
    /\ received' = [to |-> v, at |-> state[v], data |-> data,
                    skipWaitingCalled |-> IsSkipWaiting(data)]
    /\ skipWaiting' = [skipWaiting EXCEPT ![v] = IF IsSkipWaiting(data) THEN TRUE ELSE @]
    /\ UNCHANGED <<state, ipc, addAllFailed, apc, toDelete, claim, controller, caches, req>>
    /\ UNCHANGED notify
    /\ UNCHANGED foreground

\* ------------------------------------------------------ notificationclick
Range(s) == {s[i] : i \in 1..Len(s)}

\* A page is opened by the user: a new window client, the one focused last.
OpenView(c) ==
    /\ c \notin Range(windows)
    /\ Len(windows) < MaxClients - (IF click.pc = "settling" /\ opened # << >> THEN 1 ELSE 0)
    /\ windows' = <<c>> \o windows
    /\ UNCHANGED <<lifecycle, caches, req, received, click, outbox, focused, opened>>
    /\ UNCHANGED foreground

\* A page is closed by the user.
CloseView(c) ==
    /\ c \in Range(windows)
    /\ windows' = SelectSeq(windows, LAMBDA w : w # c)
    /\ UNCHANGED <<lifecycle, caches, req, received, click, outbox, focused, opened>>
    /\ UNCHANGED foreground

\* registration.showNotification(title, {.., data}): a notification of the
\* registration is on display.  The handler serves whatever data it carries.
ShowNotification(data) ==
    /\ click.pc \in {"idle", "done"}
    /\ \E v \in Versions : state[v] = "activated"
    /\ click' = [NoClick EXCEPT !.pc = "shown", !.data = data]
    /\ UNCHANGED <<lifecycle, caches, req, received, windows, outbox, focused, opened>>
    /\ UNCHANGED foreground

\* A target computed with ?? instead of ||: an empty url is taken as it is.
targetUrl_EmptyVerbatim(data) ==
    IF data.present /\ data.hasUrl THEN data.url ELSE DEFAULT_URL

\* A handler that ignores the data of the notification.
targetUrl_AlwaysDefault(data) == DEFAULT_URL

\* (event.notification.data && event.notification.data.url) || './?notification=test'
\* -- an empty url is falsy.
targetUrl(data) ==
    IF data.present /\ data.hasUrl /\ data.url # "" THEN data.url ELSE DEFAULT_URL

\* self.addEventListener('notificationclick', ...): the synchronous part of
\* the handler: the notification is closed, the target is computed, and
\* clients.matchAll is started under waitUntil.
NotificationClick ==
    /\ click.pc = "shown"
    /\ click' = [click EXCEPT !.pc = "matchAll", !.closed = TRUE,
                              !.targetUrl = targetUrl(click.data)]
    /\ outbox'  = << >>
    /\ focused' = << >>
    /\ opened'  = << >>
    /\ UNCHANGED <<lifecycle, caches, req, received, windows>>
    /\ UNCHANGED foreground

\* 'focus' in client: every client matchAll({type: 'window'}) lists is a
\* WindowClient, which has focus().
HasFocus(c) == TRUE

NOTIFICATION_CLICKED(c, url) == [to |-> c, type |-> "NOTIFICATION_CLICKED", url |-> url]

\* The loop without its return: every client is messaged and focused, and a
\* window is opened as well.
RouteClick_NoReturn(clientList, url) ==
    [posted  |-> [i \in 1..Len(clientList) |-> NOTIFICATION_CLICKED(clientList[i], url)],
     focus   |-> clientList,
     open    |-> <<url>>]

\* The callback of matchAll: the first client that has focus() is messaged
\* and focused and the loop returns; without such a client a window is
\* opened at the target.
RouteClick(clientList, url) ==
    LET hits == {i \in 1..Len(clientList) : HasFocus(clientList[i])}
    IN  IF hits = {}
        THEN [posted |-> << >>, focus |-> << >>, open |-> <<url>>]
        ELSE LET client == clientList[CHOOSE i \in hits : \A j \in hits : i <= j]
             IN  [posted |-> <<NOTIFICATION_CLICKED(client, url)>>,
                  focus  |-> <<client>>,
                  open   |-> << >>]

\* clients.matchAll(..) resolves with the clients open now, and its callback
\* runs: postMessage and focus(), or openWindow().
MatchAllSettle ==
    /\ click.pc = "matchAll"
    /\ LET out == RouteClick(windows, click.targetUrl)
       IN  /\ outbox'  = out.posted
           /\ focused' = out.focus
           /\ opened'  = out.open
    /\ click' = [click EXCEPT !.pc = "settling", !.clientList = windows]
    /\ UNCHANGED <<lifecycle, caches, req, received, windows>>
    /\ UNCHANGED foreground

\* The promise the callback returned settles, and with it the waitUntil of
\* the event: a focused client that is still open is the one focused last,
\* an opened window is a new client.
RouteSettle ==
    /\ click.pc = "settling"
    /\ click' = [click EXCEPT !.pc = "done"]
    /\ IF opened # << >>
       THEN \E c \in ClientIds \ Range(windows) : windows' = <<c>> \o windows
       ELSE IF focused # << >> /\ focused[1] \in Range(windows)
            THEN windows' = <<focused[1]>> \o SelectSeq(windows, LAMBDA w : w # focused[1])
            ELSE windows' = windows
    /\ UNCHANGED <<lifecycle, caches, req, received, outbox, focused, opened>>
    /\ UNCHANGED foreground

\* ------------------------------------------------- foreground: start-up
\* registerServiceWorker() as it returns: app.js waits for the load event
\* when service workers are supported, part_001 calls register() at once.
registerServiceWorker(pg) ==
    IF ~pg.supported THEN "none"
    ELSE IF pg.variant = "app.js" THEN "onload"
    ELSE "registering"

\* A setupOfflineDetection that adds the listeners but leaves the indicator
\* as the document has it.
setupOfflineDetection_NoInitialUpdate(n) == n

\* setupOfflineDetection(): the listeners are added (by the caller's record)
\* and updateStatus() is called once.
setupOfflineDetection(n) == [n EXCEPT !.indicatorHidden = n.onLine]

\* initDatabase(): indexedDB.open("PWA_Gallery_DB", 1) is requested.
initDatabase(g) == [g EXCEPT !.request = "pending"]

\* document.addEventListener('DOMContentLoaded', ...): the whole handler.
DOMContentLoaded ==
    /\ page.pc = "loading"
    /\ page' = [page EXCEPT !.pc = "ready",
                            !.messageListener = page.supported,
                            !.offlineListeners = TRUE]
    /\ reg'  = [reg EXCEPT !.state = registerServiceWorker(page)]
    /\ net'  = setupOfflineDetection(net)
    /\ gallery' = IF page.variant = "app.js" THEN initDatabase(gallery) ELSE gallery
    /\ UNCHANGED <<view, background>>

\* window 'load': the listener app.js added calls register().
LoadEvent ==
    /\ page.pc = "ready"
    /\ page' = [page EXCEPT !.pc = "loaded"]
    /\ reg'  = [reg EXCEPT !.state = IF @ = "onload" THEN "registering" ELSE @]
    /\ UNCHANGED <<net, ui, background>>

\* What the then-callback of register() arms: part_001 sets an interval
\* timer that calls registration.update(); app.js only logs.
PollTimer(variant) == IF variant = "part_001" THEN POLL_INTERVAL ELSE 0

\* navigator.serviceWorker.register(..) resolves.
RegisterResolve ==
    /\ reg.state = "registering"
    /\ reg' = [reg EXCEPT !.state = "registered", !.pollInterval = PollTimer(page.variant)]
    /\ UNCHANGED <<page, net, ui, background>>

\* A register() without a catch: the rejection goes unreported.
RegisterReject_Unreported ==
    /\ reg.state = "registering"
    /\ reg' = [reg EXCEPT !.state = "failed"]
    /\ UNCHANGED <<page, net, ui, background>>

\* navigator.serviceWorker.register(..) rejects: the catch logs the error.
RegisterReject ==
    /\ reg.state = "registering"
    /\ reg' = [reg EXCEPT !.state = "failed", !.errorLogged = TRUE]
    /\ UNCHANGED <<page, net, ui, background>>

\* The interval timer fires: registration.update().
PollTick ==
    /\ reg.pollInterval # 0
    /\ reg.updates < MaxPolls
    /\ reg' = [reg EXCEPT !.updates = @ + 1]
    /\ UNCHANGED <<page, net, ui, background>>

\* ---------------------------------------------- foreground: connectivity
\* The device gains or loses its connection: navigator.onLine changes and
\* an online or offline event is due at the window.
ConnectivityChange ==
    /\ Len(net.events) < MaxEvents
    /\ net' = [net EXCEPT !.onLine = ~@,
                          !.events = Append(@, IF net.onLine THEN "offline" ELSE "online")]
    /\ UNCHANGED <<page, reg, ui, background>>

\* updateStatus(): the indicator is hidden exactly when navigator.onLine.
updateStatus(n) == [n EXCEPT !.indicatorHidden = n.onLine]

\* The online or offline event is dispatched: updateStatus runs when
\* setupOfflineDetection has added it as a listener.
ConnectivityEvent ==
    /\ net.events # << >>
    /\ LET n == [net EXCEPT !.events = Tail(@)]
       IN  net' = IF page.offlineListeners THEN updateStatus(n) ELSE n
    /\ UNCHANGED <<page, reg, ui, background>>

\* ------------------------------------------------- foreground: gallery
\* db.transaction(..) can be called: db holds a connection, the open request
\* has succeeded, and so no version-change transaction is running on it.
\* On an undefined db the call is a TypeError, on a connection that is still
\* upgrading or was closed by a failed open an InvalidStateError.
Usable(g) == g.db /\ g.request = "success"

\* renderGallery(): returns at once without db; else it empties the grid and
\* then lists the store, which throws when db cannot start a transaction.
renderGallery(g) ==
    IF ~g.db THEN g
    ELSE IF ~Usable(g) THEN [g EXCEPT !.grid = << >>]
    ELSE [g EXCEPT !.grid = g.photos]

\* A savePhotoToDB that keeps the photo when db is not ready and adds it
\* once the database is open.
savePhotoToDB_Queued(g, p) ==
    IF Usable(g) THEN [g EXCEPT !.saves = Append(@, "requested"), !.adds = Append(@, p)]
    ELSE [g EXCEPT !.saves = Append(@, "not ready"), !.adds = Append(@, p)]

\* savePhotoToDB(base64Data): without db it logs 'Database not ready' and
\* returns; else db.transaction(..) throws or store.add(..) is requested.
savePhotoToDB(g, p) ==
    IF ~g.db THEN [g EXCEPT !.saves = Append(@, "not ready")]
    ELSE IF ~Usable(g) THEN [g EXCEPT !.saves = Append(@, "thrown")]
    ELSE [g EXCEPT !.saves = Append(@, "requested"), !.adds = Append(@, p)]

\* request.onupgradeneeded: the database did not exist; db is assigned while
\* the version-change transaction runs, and the store is created.
OpenUpgradeNeeded ==
    /\ gallery.request = "pending"
    /\ ~gallery.exists
    /\ gallery' = [gallery EXCEPT !.request = "upgradeneeded", !.db = TRUE]
    /\ UNCHANGED <<page, reg, net, view, background>>

\* request.onsuccess: db is assigned, the gallery is rendered.
OpenSuccess ==
    /\ \/ gallery.request = "upgradeneeded"
       \/ gallery.request = "pending" /\ gallery.exists
    /\ gallery' = renderGallery([gallery EXCEPT !.request = "success", !.db = TRUE,
                                                !.exists = TRUE])
    /\ UNCHANGED <<page, reg, net, view, background>>

\* request.onerror: the open fails, before or during the upgrade; the
\* handler logs and db keeps what it had.
OpenError ==
    /\ gallery.request \in {"pending", "upgradeneeded"}
    /\ gallery' = [gallery EXCEPT !.request = "error"]
    /\ UNCHANGED <<page, reg, net, view, background>>

\* reader.onload of openCamera(): the captured image is shown in the camera
\* result box and handed to savePhotoToDB.
Capture ==
    /\ page.variant = "app.js"
    /\ Len(gallery.saves) < MaxPhotos
    /\ gallery' = savePhotoToDB(gallery, Len(gallery.saves) + 1)
    /\ UNCHANGED <<page, reg, net, view, background>>

\* The add request of savePhotoToDB succeeds: the photo is in the store,
\* request.onsuccess logs and renders the gallery.
AddSuccess ==
    /\ gallery.adds # << >>
    /\ Usable(gallery)
    /\ gallery' = renderGallery([gallery EXCEPT !.photos = Append(@, Head(gallery.adds)),
                                                !.adds = Tail(@)])
    /\ UNCHANGED <<page, reg, net, view, background>>

\* deletePhoto(id), from the button of a rendered item and confirmed: the
\* record is deleted and transaction.oncomplete renders the gallery.
deletePhoto(id) ==
    /\ id \in Range(gallery.grid)
    /\ Usable(gallery)
    /\ gallery' = renderGallery([gallery EXCEPT
                       !.photos = SelectSeq(@, LAMBDA p : p # id)])
    /\ UNCHANGED <<page, reg, net, view, background>>

\* --------------------------------------------- foreground: navigation
\* A showView that marks the target and leaves the other views as they are.
showView_KeepOthers(vw, variant, viewId) ==
    [active   |-> IF viewId \in ElementIds THEN vw.active \cup {viewId} ELSE vw.active,
     last     |-> viewId,
     notFound |-> variant = "app.js" /\ viewId \notin ElementIds]

\* showView(viewId): 'active' is removed from every element of class 'view',
\* then added to the element getElementById(viewId) finds, whatever its
\* class; when there is none, app.js logs 'View not found', part_001 nothing.
showView(vw, variant, viewId) ==
    [active   |-> IF viewId \in ElementIds THEN (vw.active \ ViewIds) \cup {viewId}
                  ELSE vw.active \ ViewIds,
     last     |-> viewId,
     notFound |-> variant = "app.js" /\ viewId \notin ElementIds]

\* The whole call: app.js also renders the gallery when it shows galleryView.
ShowView(viewId) ==
    /\ view' = showView(view, page.variant, viewId)
    /\ gallery' = IF page.variant = "app.js" /\ viewId = "galleryView"
                  THEN renderGallery(gallery) ELSE gallery
    /\ UNCHANGED <<page, reg, net, background>>

Next ==
    \/ \E v \in Versions : InstallEvent(v)
    \/ \E v \in Versions : InstallOpen(v)
    \/ \E v \in Versions : InstallAddAll(v)
    \/ \E v \in Versions : InstallDone(v)
    \/ \E v \in Versions : ActivateEvent(v)
    \/ \E v \in Versions : ActivateKeys(v)
    \/ \E v \in Versions : ActivateDelete(v)
    \/ \E v \in Versions : ActivateDone(v)
    \/ \E v \in Versions : ClientsClaim(v)
    \/ \E r \in Reqs : FetchEvent(r)
    \/ \E r \in Reqs : MatchSettle(r)
    \/ \E r \in Reqs : FetchResolve(r)
    \/ \E r \in Reqs : FetchReject(r)
    \/ \E r \in Reqs : FallbackSettle(r)
    \/ \E r \in Reqs : WriteOpen(r)
    \/ \E r \in Reqs : WritePut(r)
    \/ \E r \in Reqs : WriteDetached(r)
    \/ \E r \in Reqs : Release(r)

Spec == Init /\ [][Next]_vars

\* ------------------------------------------------------ settling requests
\* Every cache lookup and every network fetch a request starts settles:
\* caches.match resolves, fetch resolves or rejects.  Nothing is assumed of
\* the write-through.
SpecSettle ==
    /\ Init
    /\ [][Next]_vars
    /\ \A r \in Reqs :
          /\ WF_vars(MatchSettle(r))
          /\ WF_vars(FetchResolve(r) \/ FetchReject(r))
          /\ WF_vars(FallbackSettle(r))

\* ------------------------------------------------- two concurrent requests
\* The page has two requests in flight at a time: two fetch events whose
\* promise chains interleave.
PairReqs == {1, 2}

InitPair ==
    /\ state        = [v \in Versions |-> "parsed"]
    /\ ipc          = [v \in Versions |-> "idle"]
    /\ addAllFailed = [v \in Versions |-> {}]
    /\ apc          = [v \in Versions |-> "idle"]
    /\ toDelete     = [v \in Versions |-> {}]
    /\ skipWaiting  = [v \in Versions |-> FALSE]
    /\ claim        = [v \in Versions |-> "none"]
    /\ controller   = 0
    /\ caches       = << >>
    /\ req          = [r \in PairReqs |-> IdleReq]
    /\ InitChannel
    /\ IdleForeground

NextPair ==
    \/ \E v \in Versions : InstallEvent(v)
    \/ \E v \in Versions : InstallOpen(v)
    \/ \E v \in Versions : InstallAddAll(v)
    \/ \E v \in Versions : InstallDone(v)
    \/ \E v \in Versions : ActivateEvent(v)
    \/ \E v \in Versions : ActivateKeys(v)
    \/ \E v \in Versions : ActivateDelete(v)
    \/ \E v \in Versions : ActivateDone(v)
    \/ \E v \in Versions : ClientsClaim(v)
    \/ \E r \in PairReqs : FetchEvent(r)
    \/ \E r \in PairReqs : MatchSettle(r)
    \/ \E r \in PairReqs : FetchResolve(r)
    \/ \E r \in PairReqs : FetchReject(r)
    \/ \E r \in PairReqs : FallbackSettle(r)
    \/ \E r \in PairReqs : WriteOpen(r)
    \/ \E r \in PairReqs : WritePut(r)
    \/ \E r \in PairReqs : WriteDetached(r)
    \/ \E r \in PairReqs : Release(r)

SpecPair == InitPair /\ [][NextPair]_vars

\* ------------------------------------------------------- message control
\* The lifecycle of the worker versions with pages posting messages to them.
NextMsg ==
    \/ \E v \in Versions : InstallEvent(v)
    \/ \E v \in Versions : InstallOpen(v)
    \/ \E v \in Versions : InstallAddAll(v)
    \/ \E v \in Versions : InstallDone(v)
    \/ \E v \in Versions : ActivateEvent(v)
    \/ \E v \in Versions : ActivateKeys(v)
    \/ \E v \in Versions : ActivateDelete(v)
    \/ \E v \in Versions : ActivateDone(v)
    \/ \E v \in Versions : ClientsClaim(v)
    \/ \E v \in Versions, data \in MessageDatas : Message(v, data)

\* skipWaiting() makes the browser try to activate the waiting worker, and
\* the browser activates an installed worker that need not wait.
SpecMsg ==
    /\ Init
    /\ [][NextMsg]_vars
    /\ \A v \in Versions : WF_vars(ActivateEvent(v))

\* ------------------------------------------------------ notification clicks
\* Version 1 is installed (its addAll failed: the generation is empty),
\* activated and in control of no fetch; notifications are shown and clicked
\* while the user opens and closes pages.
InitNotify ==
    /\ state        = [v \in Versions |-> IF v = 1 THEN "activated" ELSE "parsed"]
    /\ ipc          = [v \in Versions |-> IF v = 1 THEN "settled" ELSE "idle"]
    /\ addAllFailed = [v \in Versions |-> {}]
    /\ apc          = [v \in Versions |-> IF v = 1 THEN "settled" ELSE "idle"]
    /\ toDelete     = [v \in Versions |-> {}]
    /\ skipWaiting  = [v \in Versions |-> v = 1]
    /\ claim        = [v \in Versions |-> IF v = 1 THEN "done" ELSE "none"]
    /\ controller   = 1
    /\ caches       = CachesOpen(<< >>, CACHE_NAME(1))
    /\ req          = [r \in Reqs |-> IdleReq]
    /\ InitChannel
    /\ IdleForeground

NextNotify ==
    \/ \E c \in ClientIds : OpenView(c)
    \/ \E c \in ClientIds : CloseView(c)
    \/ \E data \in NotificationDatas : ShowNotification(data)
    \/ NotificationClick
    \/ MatchAllSettle
    \/ RouteSettle

SpecNotify == InitNotify /\ [][NextNotify]_vars

\* --------------------------------------------------------- the foreground
\* The page starts with either script, with or without service-worker
\* support, online or offline, and with the indicator as the document has it.
InitApp ==
    /\ state        = [v \in Versions |-> "parsed"]
    /\ ipc          = [v \in Versions |-> "idle"]
    /\ addAllFailed = [v \in Versions |-> {}]
    /\ apc          = [v \in Versions |-> "idle"]
    /\ toDelete     = [v \in Versions |-> {}]
    /\ skipWaiting  = [v \in Versions |-> FALSE]
    /\ claim        = [v \in Versions |-> "none"]
    /\ controller   = 0
    /\ caches       = << >>
    /\ req          = [r \in Reqs |-> IdleReq]
    /\ InitChannel
    /\ \E variant \in Variants, supported \in BOOLEAN :
          page = NewPage(variant, supported)
    /\ reg = NoRegistration
    /\ \E on \in BOOLEAN, hidden \in BOOLEAN :
          net = [onLine |-> on, events |-> << >>, indicatorHidden |-> hidden]
    /\ gallery = NewGallery(FALSE, << >>)
    /\ view = NewView({"homeView"})

NextApp ==
    \/ DOMContentLoaded
    \/ LoadEvent
    \/ RegisterResolve
    \/ RegisterReject
    \/ PollTick
    \/ ConnectivityChange
    \/ ConnectivityEvent

SpecApp == InitApp /\ [][NextApp]_vars

\* ------------------------------------------------ gallery and navigation
\* The page starts with either script; the photo database exists from an
\* earlier run, empty or with a photo, or not at all; the document marks
\* any of its views active.
InitGallery ==
    /\ state        = [v \in Versions |-> "parsed"]
    /\ ipc          = [v \in Versions |-> "idle"]
    /\ addAllFailed = [v \in Versions |-> {}]
    /\ apc          = [v \in Versions |-> "idle"]
    /\ toDelete     = [v \in Versions |-> {}]
    /\ skipWaiting  = [v \in Versions |-> FALSE]
    /\ claim        = [v \in Versions |-> "none"]
    /\ controller   = 0
    /\ caches       = << >>
    /\ req          = [r \in Reqs |-> IdleReq]
    /\ InitChannel
    /\ \E variant \in Variants : page = NewPage(variant, TRUE)
    /\ reg = NoRegistration
    /\ net = [onLine |-> TRUE, events |-> << >>, indicatorHidden |-> TRUE]
    /\ \E exists \in BOOLEAN, photos \in {<< >>, <<0>>} :
          /\ photos # << >> => exists
          /\ gallery = NewGallery(exists, photos)
    /\ \E active \in SUBSET ViewIds : view = NewView(active)

NextGallery ==
    \/ DOMContentLoaded
    \/ OpenUpgradeNeeded
    \/ OpenSuccess
    \/ OpenError
    \/ Capture
    \/ AddSuccess
    \/ \E id \in Photos : deletePhoto(id)
    \/ \E viewId \in ViewArgs : ShowView(viewId)

SpecGallery == InitGallery /\ [][NextGallery]_vars

\* ======================================================================
\* Properties
\* ======================================================================

\* The bodies recorded for url u in the caches of cs.
Cached(cs, u) == {cs[i].recs[u] : i \in 1..Len(cs)} \ {None}

\* The record for url u in the Cache Generation of worker version v.
RecordOf(cs, v, u) == RecsOf(cs, CACHE_NAME(v))[u]

\* Steps of request r, told apart by what they change.
LookupAnswered(r)  == req[r].pc = "match" /\ req'[r].pc # "match"
NetworkFailed(r)   == req[r].pc = "fetch" /\ req'[r].pc # "fetch" /\ req'[r].resp.kind # "live"
NetworkAnswered(r) == req[r].pc = "fetch" /\ req'[r].resp.kind = "live"
FallbackAnswered(r) == req[r].pc = "fallback" /\ req'[r].pc # "fallback"

\* C1 -- Cache-first: when the lookup of an intercepted request is answered
\* while a record for its url exists, the request is answered with a recorded
\* body of that url and no network fetch is issued for it.
C1_CacheFirst ==
    [][\A r \in Reqs :
          (LookupAnswered(r) /\ Cached(caches, req[r].url) # {})
             => /\ req'[r].pc = "done"
                /\ req'[r].resp.kind = "hit"
                /\ req'[r].resp.body \in Cached(caches, req[r].url)
                /\ req'[r].wpc = "none"]_vars

\* A request was answered from the cache although the network was never asked.
C1_Witness == \E r \in Reqs : req[r].pc = "done" /\ req[r].resp.kind = "hit"

\* C2 -- Partial-install tolerance: when the install phase of v completes,
\* every manifest entry whose fetch did not fail is retrievable from the
\* Cache Generation of v.
C2_PartialInstall ==
    [][\A v \in Versions :
          (state[v] = "installing" /\ state'[v] = "installed")
             => \A e \in ASSETS_TO_CACHE \ addAllFailed[v] :
                   RecordOf(caches', v, e) # None]_vars

\* C3 -- Whole-generation eviction: once the activate phase of v has
\* completed, no Cache Generation of an older version exists.
C3_WholeGenerationEviction ==
    \A v \in Versions :
        state[v] = "activated"
           => \A w \in Versions : (w < v) => CACHE_NAME(w) \notin Names(caches)

\* C4 -- Generation isolation: no step of the install handler of v creates,
\* deletes or changes a Cache Generation of another version.
C4_GenerationIsolation ==
    [][\A v \in Versions :
          (ipc'[v] # ipc[v])
             => \A w \in Versions \ {v} :
                   /\ (CACHE_NAME(w) \in Names(caches')) = (CACHE_NAME(w) \in Names(caches))
                   /\ RecsOf(caches', CACHE_NAME(w)) = RecsOf(caches, CACHE_NAME(w))]_vars

\* Version 2 has populated its generation while version 1 is current and
\* holds records of its own.
C4_Witness ==
    /\ state[1] = "activated"
    /\ state[2] = "installing" /\ ipc[2] = "settled"
    /\ \E u \in URLs : RecordOf(caches, 1, u) # None
    /\ \E u \in URLs : RecordOf(caches, 2, u) # None

\* C5 -- Network-fetch failure is absorbed: a request whose network fetch
\* failed is answered with the cached shell or the synthetic response, never
\* with an error.
C5_FailureAbsorbed ==
    \A r \in Reqs :
        (req[r].pc = "done" /\ req[r].resp.kind \in {"shell", "synthetic", "error"})
           => req[r].resp.kind \in {"shell", "synthetic"}

\* C6 -- Offline document fallback: a document request that missed the cache
\* and whose network fetch failed is answered, when a record of the root
\* document exists, with a recorded body of the root document.
C6_DocumentFallback ==
    [][\A r \in Reqs :
          /\ (NetworkFailed(r) /\ req[r].dest = "document") => req'[r].pc = "fallback"
          /\ (FallbackAnswered(r) /\ Cached(caches, "./index.html") # {})
                => /\ req'[r].pc = "done"
                   /\ req'[r].resp.kind = "shell"
                   /\ req'[r].resp.body \in Cached(caches, "./index.html")]_vars

\* A document request was answered with the cached shell.
C6_Witness ==
    \E r \in Reqs : req[r].pc = "done" /\ req[r].dest = "document" /\ req[r].resp.kind = "shell"

\* C7 -- Offline non-document fallback: a request that is not for a document
\* and whose network fetch failed is answered with the synthetic 503
\* text/plain response, and the step leaves the Cache Storage unchanged.
C7_SyntheticFallback ==
    [][\A r \in Reqs :
          (NetworkFailed(r) /\ req[r].dest # "document")
             => /\ req'[r].pc = "done"
                /\ req'[r].resp.kind = "synthetic"
                /\ req'[r].resp.status = 503
                /\ req'[r].resp.ctype = "text/plain"
                /\ req'[r].wpc = "none"
                /\ caches' = caches]_vars

\* A request that is not for a document was answered with the synthetic response.
C7_Witness ==
    \E r \in Reqs : req[r].pc = "done" /\ req[r].dest # "document" /\ req[r].resp.kind = "synthetic"

\* A write-through of request r settles in this step.
WriteSettled(r) == req[r].wpc \in {"put", "detached"} /\ req'[r].wpc \notin {"put", "detached"}

\* C8 as claimed -- Write-through population for any 2xx: a network response
\* with a status in 200..299 is returned and its write-through is started,
\* and when the write settles the generation of the handling worker holds
\* the response's body under the request's url.
C8_WriteThroughAny2xx ==
    [][\A r \in Reqs :
          /\ (NetworkAnswered(r) /\ req'[r].resp.status \in 200..299)
                => (req'[r].pc = "done" /\ req'[r].wpc = "open")
          /\ WriteSettled(r)
                => RecordOf(caches', req[r].sw, req[r].url) = req[r].resp.body]_vars

\* C8 as amended -- Write-through population for status 200: a network
\* response with status 200 is returned and its write-through is started, and
\* when the put succeeds on a generation that was not deleted since it was
\* opened, the generation of the handling worker holds the response's body
\* under the request's url.
C8_WriteThrough200 ==
    [][\A r \in Reqs :
          /\ (NetworkAnswered(r) /\ req'[r].resp.status = 200)
                => (req'[r].pc = "done" /\ req'[r].wpc = "open")
          /\ (req[r].wpc = "put" /\ req'[r].wpc = "stored")
                => /\ CACHE_NAME(req[r].sw) \in Names(caches')
                   /\ RecordOf(caches', req[r].sw, req[r].url) = req[r].resp.body]_vars

\* The write-through of a live 200 response has been stored.
C8_Witness ==
    \E r \in Reqs :
        /\ req[r].resp.kind = "live" /\ req[r].resp.status = 200 /\ req[r].wpc = "stored"
        /\ RecordOf(caches, req[r].sw, req[r].url) = req[r].resp.body

\* C9 -- Lookup in the current generation only: a cache hit is a record of
\* the Cache Generation of the worker handling the request.
C9_CurrentGenerationOnly ==
    [][\A r \in Reqs :
          (LookupAnswered(r) /\ req'[r].resp.kind = "hit")
             => RecordOf(caches, req[r].sw, req[r].url) = req'[r].resp.body]_vars

\* C10 -- Activation ordering: clients are claimed only when the deletions of
\* the activate phase have settled (no stale generation is left), and a
\* request is handled by a worker only after its claim has completed.
C10_ActivationOrdering ==
    /\ \A v \in Versions :
          (claim[v] = "done" /\ apc[v] # "settled") => StaleNames(caches, v) = {}
    /\ \A r \in Reqs :
          req[r].pc # "idle" => claim[req[r].sw] \in {"done", "rejected"}

\* C11 -- Extend-lifetime contract: a worker is past its install phase only
\* when the manifest population attempt has settled, and past its activate
\* phase only when every stale-generation deletion it started has settled.
C11_ExtendLifetime ==
    \A v \in Versions :
        /\ state[v] \in {"installed", "activating", "activated", "redundant"}
              => ipc[v] = "settled"
        /\ state[v] \in {"activated", "redundant"}
              => (apc[v] = "settled" /\ toDelete[v] = {})

\* Version 2 has completed its activate phase, in which it had a stale
\* generation to delete.
C11_Witness ==
    /\ state[2] = "activated"
    /\ state[1] = "redundant"
    /\ CACHE_NAME(1) \notin Names(caches)

\* C12 -- Only successful snapshots are persisted: every record of every
\* Cache Generation has a status in 200..299.
C12_OnlySuccessfulPersisted ==
    \A i \in 1..Len(caches) : \A u \in URLs :
        caches[i].recs[u] # None => caches[i].stat[u] \in 200..299

\* Records written by install (status 203) and by a write-through are in the
\* store.
C12_Witness ==
    /\ \E i \in 1..Len(caches) : \E u \in URLs : caches[i].stat[u] = 203
    /\ \E r \in DOMAIN req :
          /\ req[r].wpc = "stored"
          /\ StatsOf(caches, CACHE_NAME(req[r].sw))[req[r].url] = req[r].resp.status

\* C13 -- Pass-through of unsuccessful responses: a network response whose
\* status is not in 200..299 is returned with that status, no write-through
\* is started for it and the step leaves the Cache Storage unchanged; a
\* write-through only ever exists for a successful response.
C13_UnsuccessfulNotCached ==
    /\ [][\A r \in DOMAIN req :
            (req[r].pc = "fetch" /\ req'[r].resp.kind = "live"
                                 /\ req'[r].resp.status \notin 200..299)
               => /\ req'[r].pc = "done"
                  /\ req'[r].wpc = "none"
                  /\ caches' = caches]_vars
    /\ [](\A r \in DOMAIN req :
            req[r].wpc # "none" => req[r].resp.status \in 200..299)

\* A 404 from the network was handed to the page.
C13_Witness ==
    \E r \in DOMAIN req :
        req[r].pc = "done" /\ req[r].resp.kind = "live" /\ req[r].resp.status = 404

\* A fetch event is dispatched to slot r in this step.
Dispatched(r) == req[r].pc = "idle" /\ req'[r].pc # "idle"

\* The handler of the request in slot r has returned without respondWith:
\* no lookup, no network fetch, no response, no write-through.
NotIntercepted(rq) ==
    rq.pc = "passthrough" /\ rq.resp = NoResp /\ rq.wpc = "none"

\* C14 -- Requests that are not GET are not intercepted: the handler gives no
\* response for them, starts no lookup, and its step leaves the Cache Storage
\* unchanged; such a request stays not intercepted for as long as it exists.
C14_NonGetPassThrough ==
    /\ [][\A r \in DOMAIN req :
            (Dispatched(r) /\ req'[r].method # "GET")
               => (NotIntercepted(req'[r]) /\ caches' = caches)]_vars
    /\ [](\A r \in DOMAIN req :
            (req[r].pc # "idle" /\ req[r].method # "GET") => NotIntercepted(req[r]))

\* A same-origin POST went through the handler.
C14_Witness ==
    \E r \in DOMAIN req :
        req[r].pc = "passthrough" /\ req[r].method = "POST" /\ req[r].sameOrigin

\* C15 -- Cross-origin requests are not intercepted: the handler gives no
\* response for them, starts no lookup and no write-through, and its step
\* leaves the Cache Storage unchanged; such a request stays not intercepted
\* for as long as it exists.
C15_CrossOriginPassThrough ==
    /\ [][\A r \in DOMAIN req :
            (Dispatched(r) /\ ~req'[r].sameOrigin)
               => (NotIntercepted(req'[r]) /\ caches' = caches)]_vars
    /\ [](\A r \in DOMAIN req :
            (req[r].pc # "idle" /\ ~req[r].sameOrigin) => NotIntercepted(req[r]))

\* A cross-origin GET went through the handler.
C15_Witness ==
    \E r \in DOMAIN req :
        req[r].pc = "passthrough" /\ req[r].method = "GET" /\ ~req[r].sameOrigin

\* The cache.put of the write-through of slot r fails in this step.
PutFails(r) == req[r].wpc = "put" /\ req'[r].wpc = "failed"

\* C20 -- A failing cache write is swallowed: the step in which cache.put
\* fails changes nothing in the Cache Storage, and the page has the live
\* network response, before and after that step.
C20_WriteFailureSwallowed ==
    /\ [][\A r \in DOMAIN req :
            PutFails(r) => /\ caches' = caches
                           /\ req'[r].pc = "done"
                           /\ req'[r].resp = req[r].resp]_vars
    /\ [](\A r \in DOMAIN req :
            req[r].wpc = "failed"
               => /\ req[r].pc = "done"
                  /\ req[r].resp.kind = "live"
                  /\ req[r].resp.status = STATUS_OK)

\* A write-through failed and the generation of the worker has no record for
\* the url of the request.
C20_Witness ==
    \E r \in DOMAIN req :
        /\ req[r].wpc = "failed"
        /\ req[r].resp.kind = "live"
        /\ CACHE_NAME(req[r].sw) \in Names(caches)
        /\ RecordOf(caches, req[r].sw, req[r].url) = None

\* The outcomes of a write-through that has settled.
Settled == {"stored", "failed", "lost"}

\* The requests in slots r1 and r2 of rq are two requests for the same url,
\* handled by the same worker, that both missed the cache and both got a
\* network response that is written through.
SamePair(rq, r1, r2) ==
    /\ r1 # r2
    /\ rq[r1].url = rq[r2].url
    /\ rq[r1].sw = rq[r2].sw
    /\ rq[r1].resp.kind = "live" /\ rq[r1].wpc # "none"
    /\ rq[r2].resp.kind = "live" /\ rq[r2].wpc # "none"

\* C18 (as stated) -- When two requests for the same uncached url are handled
\* concurrently and both network fetches succeed, then in the step in which
\* the second of the two writes settles, the Cache Generation of the worker
\* comes to hold a record for the url whose body is that of one of the two
\* responses.
C18_OneRecordAfterBothSettle ==
    [][\A r1, r2 \in DOMAIN req :
          (/\ SamePair(req', r1, r2)
           /\ req[r1].wpc \notin Settled
           /\ req'[r1].wpc \in Settled
           /\ req'[r2].wpc \in Settled)
             => RecordOf(caches', req'[r1].sw, req'[r1].url)
                   \in {req'[r1].resp.body, req'[r2].resp.body}]_vars

\* C18 (amended) -- the same, when the write that settles second succeeds:
\* the record then has the body of the response written last (the last write
\* wins), whatever became of the other write.
C18_LastWriteWins ==
    [][\A r1, r2 \in DOMAIN req :
          (/\ SamePair(req', r1, r2)
           /\ req[r1].wpc \notin Settled
           /\ req'[r1].wpc = "stored"
           /\ req'[r2].wpc \in Settled)
             => RecordOf(caches', req'[r1].sw, req'[r1].url) = req'[r1].resp.body]_vars

\* Both writes of a pair with different bodies were stored, and the
\* generation holds the body of one of them.
C18_Witness ==
    /\ DOMAIN req = PairReqs
    /\ SamePair(req, 1, 2)
    /\ req[1].wpc = "stored" /\ req[2].wpc = "stored"
    /\ req[1].resp.body # req[2].resp.body
    /\ RecordOf(caches, req[1].sw, req[1].url) = req[2].resp.body

\* A message event is handled in this step.
Handled == received' # received

\* C19 -- A SKIP_WAITING message makes the worker call skipWaiting(): its
\* skip-waiting flag is set, and a worker that got the message while
\* installed (waiting) leaves that state for activation.  A message of any
\* other type or shape makes no such call and leaves the lifecycle of every
\* worker and the Cache Storage unchanged.
C19_SkipWaitingControl ==
    /\ [][Handled =>
            IF received'.data = SkipWaitingMessage
            THEN /\ received'.skipWaitingCalled
                 /\ skipWaiting'[received'.to]
                 /\ state' = state /\ caches' = caches
            ELSE /\ ~received'.skipWaitingCalled
                 /\ UNCHANGED <<lifecycle, caches>>]_vars
    /\ \A v \in Versions :
          (/\ received.to = v /\ received.at = "installed"
           /\ received.data = SkipWaitingMessage
           /\ state[v] = "installed")
             ~> (state[v] \in {"activating", "activated", "redundant"})

\* A worker got SKIP_WAITING while installed and is being activated.
C19_Witness ==
    /\ received.to # 0
    /\ received.at = "installed"
    /\ received.data = SkipWaitingMessage
    /\ received.skipWaitingCalled
    /\ state[received.to] = "activating"

\* The click has been routed.
Routed == click.pc \in {"settling", "done"}

\* Outcome (a): one client of the list was messaged once and focused, and no
\* window was opened.
OutcomeFocus ==
    /\ Len(outbox) = 1 /\ Len(focused) = 1 /\ opened = << >>
    /\ outbox[1].type = "NOTIFICATION_CLICKED"
    /\ outbox[1].to = focused[1]
    /\ focused[1] \in Range(click.clientList)

\* Outcome (b): no client was messaged or focused and one window was opened.
OutcomeOpen ==
    /\ outbox = << >> /\ focused = << >> /\ Len(opened) = 1

\* C16 -- For every click and every list of open clients, once the click is
\* routed exactly one of the outcomes (a) and (b) has happened: (a) when a
\* client was open, (b) when none was; with several clients open one of them
\* at most got the message.  Before the routing neither has happened.
C16_ExactlyOneOutcome ==
    /\ Routed => /\ OutcomeFocus # OutcomeOpen
                 /\ OutcomeFocus <=> click.clientList # << >>
                 /\ Len(outbox) <= 1
    /\ click.pc = "matchAll" =>
          (outbox = << >> /\ focused = << >> /\ opened = << >>)

\* A click was routed with two clients open.
C16_Witness ==
    /\ click.pc = "done"
    /\ Len(click.clientList) = 2
    /\ OutcomeFocus

\* Every url the routing of the click handed on: in a message, or to
\* openWindow.
RoutedUrls == {outbox[i].url : i \in 1..Len(outbox)} \cup Range(opened)

\* C17 (as stated) -- For every value of data.url, the url of the message or
\* of the opened window is that value.
C17_RoundTripEveryUrl ==
    (Routed /\ click.data.present /\ click.data.hasUrl)
        => RoutedUrls = {click.data.url}

\* C17 (amended) -- For every data.url that is not empty, the url of the
\* message or of the opened window is that value.
C17_RoundTripNonEmptyUrl ==
    (Routed /\ click.data.present /\ click.data.hasUrl /\ click.data.url # "")
        => RoutedUrls = {click.data.url}

\* A notification with data.url "/gallery" was clicked with a client open,
\* and the message carries "/gallery".
C17_Witness ==
    /\ click.pc = "done"
    /\ click.data.url = "/gallery"
    /\ outbox # << >>
    /\ outbox[1].url = "/gallery"

\* The Cache Generation of version v holds a record for every manifest entry.
FullGeneration(cs, v) ==
    /\ CACHE_NAME(v) \in Names(cs)
    /\ \A u \in ASSETS_TO_CACHE : RecordOf(cs, v, u) # None

\* Version v is installing, waiting, activating or active: no successor's
\* activate has run.
NotSuperseded(st, v) == st[v] \in {"installing", "installed", "activating", "activated"}

\* C21 -- Offline availability: an install of v in which no manifest entry
\* failed leaves the generation of v with a record for every entry; the
\* generation keeps them for as long as no successor's activate has run; and
\* while it has them, a same-origin GET for a manifest entry that the active v
\* handles is answered from the cache, without a network fetch.
C21_OfflineAvailability ==
    [][/\ \A v \in Versions :
            /\ (ipc[v] = "addAll" /\ ipc'[v] = "settled" /\ addAllFailed'[v] = {})
                  => FullGeneration(caches', v)
            /\ (FullGeneration(caches, v) /\ NotSuperseded(state, v) /\ NotSuperseded(state', v))
                  => FullGeneration(caches', v)
       /\ \A r \in DOMAIN req :
            (/\ req[r].pc = "match" /\ req'[r].pc # "match"
             /\ state[req[r].sw] = "activated"
             /\ FullGeneration(caches, req[r].sw)
             /\ req[r].url \in ASSETS_TO_CACHE)
               => /\ req'[r].pc = "done"
                  /\ req'[r].resp.kind = "hit"
                  /\ req'[r].resp.body \in Cached(caches, req[r].url)]_vars

\* Version 2, installed in full and active, answered a request from the
\* cache.
C21_Witness ==
    /\ state[2] = "activated"
    /\ FullGeneration(caches, 2)
    /\ \E r \in DOMAIN req :
          req[r].sw = 2 /\ req[r].pc = "done" /\ req[r].resp.kind = "hit"

\* C22 -- At most one Cache Generation is current: in every state in which a
\* worker controls the page and handles its requests, also while a successor
\* installs or the activate phase runs, what a lookup of that worker yields
\* for a url is what the one generation named for that worker holds for it
\* (no other generation takes part), and the write-through of a request that
\* worker handles goes to that generation.
C22_SingleCurrentGeneration ==
    (controller # 0 /\ state[controller] = "activated")
        => /\ \A u \in URLs :
                Lookup(caches, controller, u) = RecordOf(caches, controller, u)
           /\ \A r \in DOMAIN req :
                (req[r].sw = controller /\ req[r].wpc = "stored")
                   => CACHE_NAME(controller) \in Names(caches)

\* The versions that have a predecessor.
Successors == Versions \ {1}

C24_PeriodicSelfCheck ==
    reg.state = "registered" => reg.pollInterval = POLL_INTERVAL

\* The start-up of the page is complete: the DOMContentLoaded handler has
\* run to its end, with the message listener and the offline detection set
\* up.
InitialisationDone ==
    /\ page.pc \in {"ready", "loaded"}
    /\ page.messageListener
    /\ page.offlineListeners

\* C25 -- Registration failure is not fatal: a rejected register() is logged
\* and changes nothing else; the start-up of the page is complete after a
\* failed registration exactly as after a successful one.
C25_RegistrationFailureNotFatal ==
    /\ [](reg.state = "failed" => (reg.errorLogged /\ InitialisationDone))
    /\ [](reg.state = "registered" => (~reg.errorLogged /\ InitialisationDone))
    /\ [][(reg.state = "registering" /\ reg'.state = "failed")
             => /\ page' = page
                /\ net' = net
                /\ reg' = [reg EXCEPT !.state = "failed", !.errorLogged = TRUE]]_vars

\* Registration failed and the page went on to handle a connectivity event.
C25_Witness ==
    /\ reg.state = "failed"
    /\ reg.errorLogged
    /\ InitialisationDone
    /\ ~net.onLine /\ ~net.indicatorHidden /\ net.events = << >>

\* An online or offline event is dispatched in this step.
EventDispatched == Len(net'.events) < Len(net.events)

\* C26 -- Offline indicator: the run of setupOfflineDetection, and every
\* online or offline event dispatched after it, leaves the indicator visible
\* exactly when the device is offline; so whenever the listeners are set up
\* and no event is due, the indicator is visible if and only if the device
\* is offline.
C26_OfflineIndicator ==
    /\ []((page.offlineListeners /\ net.events = << >>)
             => (net.indicatorHidden <=> net.onLine))
    /\ [][/\ (~page.offlineListeners /\ page'.offlineListeners)
               => (net'.indicatorHidden <=> net'.onLine)
          /\ (page.offlineListeners /\ EventDispatched)
               => (net'.indicatorHidden <=> net'.onLine)]_vars

\* The device is offline, no event is due, and the page, loaded and
\* registered, shows the indicator.
C26_Witness ==
    /\ page.offlineListeners
    /\ page.pc = "loaded"
    /\ net.events = << >>
    /\ ~net.onLine
    /\ ~net.indicatorHidden
    /\ reg.state = "registered"

\* C27 -- A newly installed worker never remains waiting: from its install
\* handler on its skip-waiting flag is set, so that the browser may activate
\* it as soon as it is installed, also while another worker is active; and
\* every installed worker is activated, whether or not a message reaches it.
C27_NeverWaits ==
    /\ [](\A v \in Versions :
            state[v] \in {"installing", "installed"} => skipWaiting[v])
    /\ [][\A v \in Versions :
            (state[v] = "installing" /\ state'[v] = "installed" /\ OtherActive(v))
               => (skipWaiting'[v] /\ received' = received)]_vars
    /\ \A v \in Versions :
          (state[v] = "installed") ~> (state[v] \in {"activating", "activated", "redundant"})

\* Version 2 is being activated, having taken over the page version 1
\* controlled, and no worker has received any message.
C27_Witness ==
    /\ state[2] = "activating"
    /\ state[1] = "redundant"
    /\ controller = 2
    /\ received = NoMessage

\* The write-through of the request in slot r of rq has started and has not
\* settled.
WritePending(rq, r) == rq[r].wpc \in {"open", "put", "detached"}

\* The request in slot r1 has its live response, its write-through has not
\* settled, and the lookup of a second request for the same url, in slot r2,
\* resolves in this step.
SecondLookup(r1, r2) ==
    /\ r1 # r2
    /\ req[r1].pc = "done" /\ req[r1].resp.kind = "live" /\ WritePending(req, r1)
    /\ req[r2].url = req[r1].url
    /\ req[r2].pc = "match" /\ req'[r2].pc # "match"

\* C28 (as stated) -- A second request for the same url, looked up after the
\* first response was returned and before its write has settled, misses the
\* cache and goes to the network.
C28_SecondRequestMisses ==
    [][\A r1, r2 \in DOMAIN req :
          SecondLookup(r1, r2) => req'[r2].pc = "fetch"]_vars

\* C28 (amended) -- The live response is returned without waiting for the
\* write-through: while a write-through is unsettled its request has its
\* response.  A second request for the same url looked up in that time
\* misses the cache and goes to the network exactly when nothing else has
\* stored a record for the url meanwhile: the unsettled write is not seen.
C28_ReturnedBeforeWrite ==
    /\ [](\A r \in DOMAIN req :
            WritePending(req, r) => (req[r].pc = "done" /\ req[r].resp.kind = "live"))
    /\ [][\A r1, r2 \in DOMAIN req :
            SecondLookup(r1, r2)
               => (req'[r2].pc = "fetch" <=> Cached(caches, req[r2].url) = {})]_vars

\* The first request has its response and its put is outstanding; the second
\* request for the same url, handled by the same worker, has missed the cache
\* and is at the network.
C28_Witness ==
    /\ DOMAIN req = PairReqs
    /\ req[1].pc = "done" /\ req[1].resp.kind = "live" /\ req[1].wpc = "put"
    /\ req[2].url = req[1].url /\ req[2].sw = req[1].sw
    /\ req[2].pc = "fetch"

\* The request rq is on a read path: not intercepted, answered from the
\* cache, answered by the network with an unsuccessful status, or its
\* network fetch has failed (fallback pending or given).
ReadPath(rq) ==
    \/ rq.pc = "passthrough"
    \/ rq.pc = "fallback"
    \/ rq.resp.kind \in {"hit", "shell", "synthetic", "error"}
    \/ rq.resp.kind = "live" /\ rq.resp.status \notin 200..299

\* C29 -- Read paths do not write: a request on a read path has no
\* write-through, and every step of handling a request that has none, from
\* the dispatch of its fetch event to the release of its slot, leaves the
\* Cache Storage (the set of generations and every record) unchanged.
C29_ReadPathsDoNotWrite ==
    /\ [](\A r \in DOMAIN req : ReadPath(req[r]) => req[r].wpc = "none")
    /\ [][\A r \in DOMAIN req :
            (req'[r] # req[r] /\ req[r].wpc = "none" /\ req'[r].wpc = "none")
               => caches' = caches]_vars

\* A failed fetch of a document that is not cached was answered with the
\* cached shell.
C29_Witness ==
    \E r \in DOMAIN req :
        /\ req[r].pc = "done"
        /\ req[r].resp.kind = "shell"
        /\ req[r].wpc = "none"
        /\ Cached(caches, req[r].url) = {}
        /\ Cached(caches, FALLBACK_URL) # {}

\* The kinds of answer that are a response: a cached record, the network's
\* response, the cached shell, the synthetic offline response.
ResponseKinds == {"hit", "live", "shell", "synthetic"}

\* C30 -- Every intercepted request eventually receives exactly one
\* response, provided its lookups and its network fetch settle: the handling
\* of an intercepted request ends, what it ends with is a response, and the
\* response once given is not replaced; no step of the write-through is
\* needed for it.
C30_ExactlyOneResponse ==
    /\ \A r \in Reqs :
          (req[r].pc \in {"match", "fetch", "fallback"}) ~> (req[r].pc = "done")
    /\ [](\A r \in Reqs : req[r].pc = "done" => req[r].resp.kind \in ResponseKinds)
    /\ [][\A r \in Reqs :
            req[r].resp # NoResp
               => (req'[r].resp = req[r].resp \/ req'[r] = IdleReq)]_vars

\* The cache named n is created in this step, or a record of it is written.
Written(n) ==
    /\ n \in Names(caches')
    /\ \/ n \notin Names(caches)
       \/ RecsOf(caches', n) # RecsOf(caches, n)
       \/ StatsOf(caches', n) # StatsOf(caches, n)

\* A promise of the install handler of version v settles in this step.
InstallStep(v) == ipc'[v] # ipc[v]

\* A step of the write-through of a request that version v handles.
WriteStep(v) ==
    \E r \in DOMAIN req : req[r].sw = v /\ req'[r].wpc # req[r].wpc /\ req[r].wpc \in {"open", "put"}

\* C31 -- A worker of version v creates and writes only the Cache Generation
\* named for v: whenever a cache is created or a record of it written, the
\* cache is the generation of the version whose install handler or
\* write-through takes the step.
C31_WritesOwnGenerationOnly ==
    [][\A n \in CacheNames :
          Written(n) => \E v \in Versions :
                           n = CACHE_NAME(v) /\ (InstallStep(v) \/ WriteStep(v))]_vars

\* While version 2 installs, with records in its generation, a write-through
\* of version 1 has been stored in the generation of version 1.
C31_Witness ==
    /\ state[2] = "installing"
    /\ \E u \in URLs : RecordOf(caches, 2, u) # None
    /\ \E r \in DOMAIN req :
          /\ req[r].sw = 1 /\ req[r].wpc = "stored"
          /\ RecordOf(caches, 1, req[r].url) = req[r].resp.body
          /\ RecordOf(caches, 2, req[r].url) # req[r].resp.body

\* The notification data has no usable url: no data, no url, or an empty url.
NoUsableUrl(data) == ~data.present \/ ~data.hasUrl \/ data.url = ""

\* The click handler has run its synchronous part.
Clicked == click.pc \in {"matchAll", "settling", "done"}

\* C32 -- A click on a notification without a usable data.url has the fixed
\* default as its target, and that is the url every message and every opened
\* window gets; whatever the data, the notification is closed when the
\* handler starts to route the click and stays closed.
C32_DefaultTarget ==
    /\ (Clicked /\ NoUsableUrl(click.data))
          => (click.targetUrl = DEFAULT_URL /\ RoutedUrls \subseteq {DEFAULT_URL})
    /\ Clicked => click.closed
    /\ click.pc = "shown" => ~click.closed

\* A notification with an empty data.url was clicked with no client open,
\* and a window was opened at the default.
C32_Witness ==
    /\ click.pc = "done"
    /\ click.closed
    /\ click.data.present /\ click.data.hasUrl /\ click.data.url = ""
    /\ opened = <<DEFAULT_URL>>
\* A photo is captured: reader.onload has called savePhotoToDB.
CaptureStep == Len(gallery'.saves) = Len(gallery.saves) + 1

\* The open request of initDatabase has not succeeded (not made yet, pending,
\* upgrading, or failed).
BeforeOpen(g) == g.request # "success"

\* How savePhotoToDB can end without an add request: it logs 'Database not
\* ready' (db undefined), or db.transaction(..) throws (db already assigned
\* by onupgradeneeded, or left by a failed open).
SaveErrors == {"not ready", "thrown"}

\* The photos whose save ended in an error.
Unsaved(g) == {p \in 1..Len(g.saves) : g.saves[p] \in SaveErrors}

\* C33: a capture that completes before the database has finished opening
\* ends savePhotoToDB in an error, with the photo store and the pending add
\* requests unchanged; such a photo is never in the store or in the rendered
\* gallery afterwards.
C33_EarlyCaptureLost ==
    [][/\ (CaptureStep /\ BeforeOpen(gallery)) =>
            /\ gallery'.saves[Len(gallery'.saves)] \in SaveErrors
            /\ gallery'.photos = gallery.photos
            /\ gallery'.adds = gallery.adds
       /\ \A p \in Unsaved(gallery') :
            p \notin Range(gallery'.photos) \cup Range(gallery'.grid)
                         \cup Range(gallery'.adds)]_vars

\* The first photo was captured before db was set and the second after the
\* database had opened: the store that held photo 0 and the gallery drawn
\* from it hold photo 2 as well, and not photo 1.
C33_Witness ==
    /\ gallery.saves = <<"not ready", "requested">>
    /\ gallery.request = "success"
    /\ gallery.photos = <<0, 2>>
    /\ gallery.grid = <<0, 2>>
\* The views that carry the class 'active'.
ActiveViews(vw) == vw.active \cap ViewIds

\* C34: once showView has been called, at most one view is active: the view
\* named by the last call when the id is that of a view, and none when no
\* element has the id (nor when the id is that of an element that is not a
\* view), whatever was active before.
C34_AtMostOneActiveView ==
    view.last # "" =>
        /\ Cardinality(ActiveViews(view)) <= 1
        /\ view.last \in ViewIds => ActiveViews(view) = {view.last}
        /\ view.last \notin ViewIds => ActiveViews(view) = {}
        /\ view.notFound => view.last \notin ElementIds

\* showView('galleryView') was called after a call had marked the grid, an
\* element that is not a view: the gallery view is the only active view.
C34_Witness ==
    /\ view.last = "galleryView"
    /\ view.active = {"galleryView", "galleryGrid"}

====
